---- MODULE Spec2Model ----
(***************************************************************************)
(* Recipe API (src/hw.py): an in-memory list of recipe dicts, RECIPES,     *)
(* with four FastAPI handlers: root, search_recipes, fetch_recipe and      *)
(* create_recipe.                                                          *)
(*                                                                         *)
(* A Python str is modelled as a sequence of one-character strings, so     *)
(* that str.lower() and the substring test `in` are computed rather than   *)
(* assumed.  An Optional[str] is a sequence of length 0 (None) or 1.       *)
(***************************************************************************)
EXTENDS Integers, Sequences, FiniteSets

VARIABLES
    RECIPES,   \* the module-level list of recipe dicts
    req,       \* the request most recently handled
    status,    \* its HTTP status code
    ret,       \* what its handler returned (or the detail it raised)
    created,   \* history: the records create_recipe has returned
    seen,      \* history: one earlier search (request and result) made
               \* since the last append to RECIPES
    local      \* per worker thread: where it is inside create_recipe

vars == <<RECIPES, req, status, ret, created, seen, local>>

(***************************************************************************)
(* Bounds of the model.                                                    *)
(***************************************************************************)
MaxStore == 5        \* Spec and SpecConc: RECIPES never exceeds this length
MaxVisStore == 12    \* SpecVis: RECIPES never exceeds this length
NumWorkers == 2      \* SpecConc: threads of the threadpool running handlers

(***************************************************************************)
(* Program constants.                                                      *)
(***************************************************************************)
MaxResultsDefault == 10   \* max_results: Optional[int] = 10
MinLength == 3            \* Query(None, min_length=3, ...)

(***************************************************************************)
(* Strings.                                                                *)
(***************************************************************************)
None == <<>>
Some(s) == <<s>>

UpperCase == <<"A","B","C","D","E","F","G","H","I","J","K","L","M",
               "N","O","P","Q","R","S","T","U","V","W","X","Y","Z">>
LowerCase == <<"a","b","c","d","e","f","g","h","i","j","k","l","m",
               "n","o","p","q","r","s","t","u","v","w","x","y","z">>

LowerChar(c) ==
    IF \E i \in 1..Len(UpperCase) : UpperCase[i] = c
    THEN LowerCase[CHOOSE i \in 1..Len(UpperCase) : UpperCase[i] = c]
    ELSE c

\* str.lower()
Lower(s) == [i \in 1..Len(s) |-> LowerChar(s[i])]

\* sub in s
Contains(sub, s) ==
    \E i \in 0..(Len(s) - Len(sub)) : SubSeq(s, i + 1, i + Len(sub)) = sub

\* lst[:stop] for an integer stop
SliceToOneMore(lst, stop) ==
    LET n == Len(lst)
        k == IF stop < 0 THEN (IF n + stop < 0 THEN 0 ELSE n + stop)
             ELSE IF stop + 1 > n THEN n ELSE stop + 1
    IN  SubSeq(lst, 1, k)
SliceTo(lst, stop) ==
    LET n == Len(lst)
        k == IF stop < 0 THEN (IF n + stop < 0 THEN 0 ELSE n + stop)
             ELSE IF stop > n THEN n ELSE stop
    IN  SubSeq(lst, 1, k)

(***************************************************************************)
(* The seed records.                                                       *)
(***************************************************************************)
ChickenVesuvio == <<"C","h","i","c","k","e","n"," ","V","e","s","u","v","i","o">>
ChickenPaprikash ==
    <<"C","h","i","c","k","e","n"," ","P","a","p","r","i","k","a","s","h">>
CauliflowerCurry ==
    <<"C","a","u","l","i","f","l","o","w","e","r"," ","a","n","d"," ",
      "T","o","f","u"," ","C","u","r","r","y"," ","R","e","c","i","p","e">>

SeedRecipes ==
    << [id |-> 1, label |-> ChickenVesuvio, source |-> "Serious Eats",
        url |-> "http://www.seriouseats.com/recipes/2011/12/chicken-vesuvio-recipe.html"],
       [id |-> 2, label |-> ChickenPaprikash, source |-> "No Recipes",
        url |-> "http://norecipes.com/recipe/chicken-paprikash/"],
       [id |-> 3, label |-> CauliflowerCurry, source |-> "Serious Eats",
        url |-> "http://www.seriouseats.com/recipes/2011/02/cauliflower-and-tofu-curry-recipe.html"] >>

(***************************************************************************)
(* class Recipe(BaseModel): id, label, source.  Constructing it with a     *)
(* url keyword keeps the three declared fields and ignores the extra one;  *)
(* .dict() of the instance is the record with those three keys.            *)
(***************************************************************************)
Recipe(id, label, source, url) == [id |-> id, label |-> label, source |-> source]

\* a stored dict (with or without a url key) read through the Recipe model
AsRecipe(d) == [id |-> d.id, label |-> d.label, source |-> d.source]

(***************************************************************************)
(* search_recipes                                                          *)
(***************************************************************************)
\* `not keyword`: None or the empty string
Falsy(keyword) == keyword = None \/ keyword[1] = <<>>

\* the lambda handed to filter()
MatchesCaseSensitive(keyword, recipe) == Contains(keyword[1], recipe.label)
Matches(keyword, recipe) == Contains(Lower(keyword[1]), Lower(recipe.label))

FilterRecipes(keyword, store) ==
    SelectSeq(store, LAMBDA recipe : Matches(keyword, recipe))

SearchRecipesSliceFirst(keyword, max_results, store) ==
    IF Falsy(keyword)
    THEN [results |-> SliceTo(store, max_results)]
    ELSE [results |-> FilterRecipes(keyword, SliceTo(store, max_results))]
SearchRecipes(keyword, max_results, store) ==
    IF Falsy(keyword)
    THEN [results |-> SliceTo(store, max_results)]
    ELSE [results |-> SliceTo(FilterRecipes(keyword, store), max_results)]

\* RECIPES after search_recipes: the slice and list(filter(...)) build new
\* lists, RECIPES itself is only read
StoreTruncatedBySearch(keyword, max_results, store) == SliceTo(store, max_results)
StoreAfterSearch(keyword, max_results, store) == store

(***************************************************************************)
(* fetch_recipe                                                            *)
(***************************************************************************)
FetchRecipeInverted(recipe_id, store) ==
    LET result == SelectSeq(store, LAMBDA recipe : recipe.id = recipe_id)
    IN  IF result # <<>>
        THEN [status |-> 404, ret |-> [detail |-> recipe_id]]
        ELSE [status |-> 500, ret |-> [detail |-> "IndexError"]]
FetchRecipeLast(recipe_id, store) ==
    LET result == SelectSeq(store, LAMBDA recipe : recipe.id = recipe_id)
    IN  IF result = <<>>
        THEN [status |-> 404, ret |-> [detail |-> recipe_id]]
        ELSE [status |-> 200, ret |-> result[Len(result)]]
FetchRecipe(recipe_id, store) ==
    LET result == SelectSeq(store, LAMBDA recipe : recipe.id = recipe_id)
    IN  IF result = <<>>
        THEN [status |-> 404, ret |-> [detail |-> recipe_id]]
        ELSE [status |-> 200, ret |-> result[1]]

(***************************************************************************)
(* create_recipe                                                           *)
(***************************************************************************)
\* new_entry_id = len(RECIPES) + 1
NewEntryIdLen(store) == Len(store)
NewEntryId(store) == Len(store) + 1

\* RECIPES.append(recipe_entry.dict())
StoreInsertFront(store, entry) == <<entry>> \o store
StoreReplaceLast(store, entry) == [store EXCEPT ![Len(store)] = entry]
StoreAppend(store, entry) == Append(store, entry)

(***************************************************************************)
(* Inputs of the requests.                                                 *)
(***************************************************************************)
Lasagna == <<"L","a","s","a","g","n","a">>
ChickenPie == <<"C","H","I","C","K","E","N"," ","p","i","e">>

\* request bodies of POST /recipe/ (label, source, url)
RecipeInputs ==
    { [label |-> l, source |-> "Grandma", url |-> ""] : l \in {Lasagna, ChickenPie} }

KeywordInputs ==
    { None,
      Some(<<>>),
      Some(<<"c","h">>),
      Some(<<"c","h","i","c","k","e","n">>),
      Some(<<"C","h","i","c","k","e","n">>),
      Some(<<"L","a","s","a","g","n","a">>),
      Some(<<"k","e","n"," ","p">>) }

MaxResultsInputs == {-7, -1, 0, 1, 2, MaxResultsDefault}

FetchIds == (0..(MaxStore + 1)) \cup {999}

VisKeywordInputs ==
    { None,
      Some(<<"c","h","i","c","k","e","n">>),
      Some(<<"L","A","S","A","G","N","A">>) }

VisFetchIds == {1, MaxVisStore, 999}

IdemKeywordInputs ==
    { None,
      Some(<<"C","h","i","c","k","e","n">>),
      Some(<<"l","a","s","a","g","n","a">>) }

IdemMaxResultsInputs == {-1, 1, MaxResultsDefault}

Workers == 1..NumWorkers

(***************************************************************************)
(* State after the module is imported: the seeded list, no request yet.    *)
(***************************************************************************)
NoRequest == [op |-> "none"]
NoSeen == [req |-> NoRequest]

\* seen once one more call has been handled (its age saturates at 2)
Older(s) == IF s = NoSeen THEN s ELSE [s EXCEPT !.age = IF @ < 2 THEN @ + 1 ELSE @]
Idle == [pc |-> "idle"]

Init ==
    /\ RECIPES = SeedRecipes
    /\ req = NoRequest
    /\ status = 0
    /\ ret = NoRequest
    /\ created = <<>>
    /\ seen = NoSeen
    /\ local = [w \in Workers |-> Idle]

AllIdle == \A w \in Workers : local[w] = Idle

(***************************************************************************)
(* GET / : root()                                                          *)
(***************************************************************************)
Root ==
    /\ req' = [op |-> "root"]
    /\ status' = 200
    /\ ret' = [msg |-> "Hello World!"]
    /\ UNCHANGED <<RECIPES, created, seen, local>>

(***************************************************************************)
(* search_recipes(keyword, max_results) run on the current list.  With     *)
(* keep, the history variable seen may record this call for comparison     *)
(* with a later one.                                                       *)
(***************************************************************************)
RunSearch(keyword, max_results, keep) ==
    /\ req' = [op |-> "search", keyword |-> keyword, max_results |-> max_results]
    /\ status' = 200
    /\ ret' = SearchRecipes(keyword, max_results, RECIPES)
    /\ RECIPES' = StoreAfterSearch(keyword, max_results, RECIPES)
    /\ seen' \in IF keep
                 THEN {Older(seen), [req |-> req', ret |-> ret', age |-> 0]}
                 ELSE {seen}
    /\ UNCHANGED <<created, local>>

\* GET /search/ : Query(None, min_length=3) rejects a shorter keyword
\* before the handler runs
SearchRequestOf(keywords, limits, keep) ==
    \E keyword \in keywords, max_results \in limits :
        IF keyword # None /\ Len(keyword[1]) < MinLength
        THEN /\ req' = [op |-> "search", keyword |-> keyword,
                        max_results |-> max_results]
             /\ status' = 422
             /\ ret' = [detail |-> "min_length"]
             /\ UNCHANGED <<RECIPES, created, seen, local>>
        ELSE RunSearch(keyword, max_results, keep)

\* search_recipes called as a function, with no validation of its arguments
SearchCallOf(keywords, limits, keep) ==
    \E keyword \in keywords, max_results \in limits :
        RunSearch(keyword, max_results, keep)

(***************************************************************************)
(* GET /recipe/{recipe_id} : fetch_recipe                                  *)
(***************************************************************************)
FetchOf(ids) ==
    \E recipe_id \in ids :
        LET out == FetchRecipe(recipe_id, RECIPES)
        IN  /\ req' = [op |-> "fetch", recipe_id |-> recipe_id]
            /\ status' = out.status
            /\ ret' = out.ret
            /\ seen' = Older(seen)
            /\ UNCHANGED <<RECIPES, created, local>>

(***************************************************************************)
(* POST /recipe/ : create_recipe, run from its first line to its return    *)
(* with no other handler in between.                                       *)
(***************************************************************************)
CreateOf(limit, inputs) ==
    \E recipe_in \in inputs :
        /\ AllIdle
        /\ Len(RECIPES) < limit
        /\ LET new_entry_id == NewEntryId(RECIPES)
               recipe_entry == Recipe(new_entry_id, recipe_in.label,
                                      recipe_in.source, recipe_in.url)
           IN  /\ RECIPES' = StoreAppend(RECIPES, recipe_entry)
               /\ req' = [op |-> "create", recipe_in |-> recipe_in]
               /\ status' = 201
               /\ ret' = recipe_entry
               /\ created' = Append(created, recipe_entry)
        /\ seen' = NoSeen
        /\ UNCHANGED local

(***************************************************************************)
(* create_recipe on a threadpool worker: the read of len(RECIPES) and the  *)
(* append are separate steps, and other handlers run between them.         *)
(***************************************************************************)
InFlight == Cardinality({w \in Workers : local[w] # Idle})

CreateBegin(w) ==
    \E recipe_in \in RecipeInputs :
        /\ local[w] = Idle
        /\ Len(RECIPES) + InFlight < MaxStore
        /\ local' = [local EXCEPT ![w] =
                         [pc |-> "append",
                          new_entry_id |-> NewEntryId(RECIPES),
                          recipe_in |-> recipe_in]]
        /\ UNCHANGED <<RECIPES, req, status, ret, created, seen>>

CreateEnd(w) ==
    /\ local[w] # Idle
    /\ LET recipe_in == local[w].recipe_in
           recipe_entry == Recipe(local[w].new_entry_id, recipe_in.label,
                                  recipe_in.source, recipe_in.url)
       IN  /\ RECIPES' = StoreAppend(RECIPES, recipe_entry)
           /\ req' = [op |-> "create", recipe_in |-> recipe_in]
           /\ status' = 201
           /\ ret' = recipe_entry
           /\ created' = Append(created, recipe_entry)
    /\ seen' = NoSeen
    /\ local' = [local EXCEPT ![w] = Idle]

(***************************************************************************)
(* Specifications.                                                         *)
(***************************************************************************)
SearchRequest == SearchRequestOf(KeywordInputs, MaxResultsInputs, FALSE)
SearchCall == SearchCallOf(KeywordInputs, MaxResultsInputs, FALSE)
Fetch == FetchOf(FetchIds)
Create == CreateOf(MaxStore, RecipeInputs)

\* handlers run one after another
Next == Root \/ SearchRequest \/ SearchCall \/ Fetch \/ Create

Spec == Init /\ [][Next]_vars

VisSearch == SearchRequestOf(VisKeywordInputs, {MaxResultsDefault}, FALSE)
VisFetch == FetchOf(VisFetchIds)
VisCreate == CreateOf(MaxVisStore, RecipeInputs)

\* handlers run one after another, default max_results, a longer list
NextVis == VisSearch \/ VisFetch \/ VisCreate

SpecVis == Init /\ [][NextVis]_vars

IdemSearch == SearchCallOf(IdemKeywordInputs, IdemMaxResultsInputs, TRUE)

\* handlers run one after another, an earlier search remembered
NextIdem == IdemSearch \/ Fetch \/ Create

SpecIdem == Init /\ [][NextIdem]_vars

ConcSearch == SearchRequestOf(IdemKeywordInputs, IdemMaxResultsInputs, FALSE)
ConcBegin == \E w \in Workers : CreateBegin(w)
ConcEnd == \E w \in Workers : CreateEnd(w)

\* create_recipe calls interleave on the worker threads
NextConc == ConcSearch \/ Fetch \/ ConcBegin \/ ConcEnd

SpecConc == Init /\ [][NextConc]_vars

(***************************************************************************)
(* Properties.                                                             *)
(***************************************************************************)
Min(a, b) == IF a < b THEN a ELSE b

SearchDone == req.op = "search" /\ status = 200

\* label contains the keyword, both lower-cased
LabelHas(kw, label) == Contains(Lower(kw), Lower(label))

\* positions of RECIPES whose label contains kw
MatchingAt(kw) == {i \in DOMAIN RECIPES : LabelHas(kw, RECIPES[i].label)}

\* the record at the first position of RECIPES holding this id
IsFirstWithId(r, id) ==
    \E i \in DOMAIN RECIPES :
        /\ RECIPES[i] = r
        /\ r.id = id
        /\ \A j \in 1..(i - 1) : RECIPES[j].id # id

\* C1: every search returns at most max_results records, whatever the
\* keyword and whatever the sign of max_results.
SearchWithinMaxResults ==
    SearchDone => Len(ret.results) <= req.max_results

\* C2: with handlers run one after another, the ids in RECIPES strictly
\* increase with position (so they are pairwise distinct), and no step
\* changes the id of a record already stored.
IdsIncreasing ==
    \A i, j \in DOMAIN RECIPES : i < j => RECIPES[i].id < RECIPES[j].id
IdsKept ==
    \A i \in DOMAIN RECIPES :
        i \in DOMAIN RECIPES' /\ RECIPES'[i].id = RECIPES[i].id
IdsUniqueIncreasing == []IdsIncreasing /\ [][IdsKept]_vars
IdsUniqueIncreasingWitness ==
    /\ req.op = "create"
    /\ Len(created) >= 2
    /\ ret.id = Len(SeedRecipes) + 2

\* C3: a search with a non-empty keyword and max_results >= 0 returns the
\* records at the first max_results matching positions of RECIPES, in
\* order of position, and nothing else; on the seeded list "chicken" with
\* max_results 10 returns the records with ids 1 and 2.
SearchFiltersInOrder ==
    /\ (SearchDone /\ ~Falsy(req.keyword) /\ req.max_results >= 0) =>
          LET idx == MatchingAt(req.keyword[1])
              res == ret.results
          IN  /\ Len(res) = Min(req.max_results, Cardinality(idx))
              /\ \A k \in DOMAIN res :
                    /\ LabelHas(req.keyword[1], res[k].label)
                    /\ \E i \in idx :
                          /\ res[k] = RECIPES[i]
                          /\ Cardinality({j \in idx : j < i}) = k - 1
    /\ (/\ SearchDone
        /\ RECIPES = SeedRecipes
        /\ req.keyword = Some(<<"c","h","i","c","k","e","n">>)
        /\ req.max_results = MaxResultsDefault) =>
          /\ Len(ret.results) = 2
          /\ ret.results[1].id = 1 /\ ret.results[1].label = ChickenVesuvio
          /\ ret.results[2].id = 2 /\ ret.results[2].label = ChickenPaprikash
SearchFiltersInOrderWitness ==
    /\ SearchDone
    /\ req.keyword = Some(<<"C","h","i","c","k","e","n">>)
    /\ req.max_results = 2
    /\ Len(ret.results) = 2
    /\ Cardinality(MatchingAt(req.keyword[1])) = 4
    /\ \E i \in DOMAIN RECIPES : ~LabelHas(req.keyword[1], RECIPES[i].label)

\* C4: a search with keyword None or "" and max_results >= 0 returns the
\* first min(max_results, len(RECIPES)) records of RECIPES, unfiltered; on
\* the seeded list, keyword None with max_results 10 returns the 3 seeds.
SearchUnfiltered ==
    /\ (SearchDone /\ Falsy(req.keyword) /\ req.max_results >= 0) =>
          /\ Len(ret.results) = Min(req.max_results, Len(RECIPES))
          /\ \A k \in DOMAIN ret.results : ret.results[k] = RECIPES[k]
    /\ (/\ SearchDone
        /\ RECIPES = SeedRecipes
        /\ req.keyword = None
        /\ req.max_results = MaxResultsDefault) => ret.results = SeedRecipes
SearchUnfilteredWitness ==
    /\ SearchDone
    /\ req.keyword = Some(<<>>)
    /\ req.max_results = 2
    /\ Len(ret.results) = 2
    /\ Len(RECIPES) > Len(SeedRecipes)

\* C5: fetch_recipe answers 404 carrying the requested id exactly when no
\* record of RECIPES has that id, otherwise 200 with the first record in
\* list order holding it; RECIPES is the same before and after.
FetchAnswer ==
    req.op = "fetch" =>
        LET found == \E i \in DOMAIN RECIPES : RECIPES[i].id = req.recipe_id
        IN  /\ status = 404 <=> ~found
            /\ status = 404 => ret = [detail |-> req.recipe_id]
            /\ status # 404 => status = 200 /\ IsFirstWithId(ret, req.recipe_id)
FetchReadsOnly == req'.op = "fetch" => RECIPES' = RECIPES
FetchFoundOrNotFound == []FetchAnswer /\ [][FetchReadsOnly]_vars
FetchFoundOrNotFoundWitness ==
    /\ req.op = "fetch"
    /\ status = 404
    /\ req.recipe_id = Len(RECIPES)
    /\ Len(RECIPES) > Len(SeedRecipes)

\* C6: create_recipe run without interleaving on a list of length n returns
\* a record with id n + 1 and the label and source of the request, and
\* leaves RECIPES equal to the old list with that record appended; no other
\* handler changes RECIPES.
CreateEffect ==
    LET n == Len(RECIPES)
    IN  /\ req'.op = "create"
        /\ status' = 201
        /\ ret'.id = n + 1
        /\ ret'.label = req'.recipe_in.label
        /\ ret'.source = req'.recipe_in.source
        /\ Len(RECIPES') = n + 1
        /\ \A i \in 1..n : RECIPES'[i] = RECIPES[i]
        /\ RECIPES'[n + 1] = ret'
CreateAppendsOne ==
    [][(req'.op = "create" \/ RECIPES' # RECIPES) => CreateEffect]_vars
CreateAppendsOneWitness ==
    /\ req.op = "create"
    /\ Len(RECIPES) = Len(SeedRecipes) + 2
    /\ RECIPES[Len(RECIPES)] = ret
    /\ ret.label = Lasagna
    /\ RECIPES[Len(RECIPES) - 1].label = ChickenPie

\* C7: with handlers run one after another, fetching the id of a record
\* that create_recipe returned answers 200 with a record equal to it in
\* id, label and source, however many requests came in between.
FetchReturnsCreated ==
    (req.op = "fetch" /\ \E k \in DOMAIN created : created[k].id = req.recipe_id)
        => /\ status = 200
           /\ \A k \in DOMAIN created :
                 created[k].id = req.recipe_id => AsRecipe(ret) = created[k]
FetchReturnsCreatedWitness ==
    /\ req.op = "fetch"
    /\ status = 200
    /\ Len(created) >= 2
    /\ AsRecipe(ret) = created[1]

\* a record create_recipe returned is among the results of the last search
InResults(r) == \E i \in DOMAIN ret.results : AsRecipe(ret.results[i]) = r

\* C8 as stated: a search with max_results 10 whose keyword is contained,
\* case-insensitively, in the label of a record create_recipe returned
\* has that record among its results.
CreatedAlwaysVisible ==
    (SearchDone /\ req.keyword # None /\ req.max_results = MaxResultsDefault) =>
        \A k \in DOMAIN created :
            LabelHas(req.keyword[1], created[k].label) => InResults(created[k])

\* C8 amended: such a search has the created record among its results
\* exactly when fewer than 10 records matching the keyword precede it in
\* RECIPES.
CreatedVisibleWithinLimit ==
    (SearchDone /\ req.keyword # None /\ req.max_results = MaxResultsDefault) =>
        \A k \in DOMAIN created :
            LabelHas(req.keyword[1], created[k].label) =>
                LET pos == Len(SeedRecipes) + k
                    before == {j \in MatchingAt(req.keyword[1]) : j < pos}
                IN  InResults(created[k]) <=> Cardinality(before) < MaxResultsDefault
CreatedVisibleWithinLimitWitness ==
    /\ SearchDone
    /\ req.keyword = Some(<<"c","h","i","c","k","e","n">>)
    /\ req.max_results = MaxResultsDefault
    /\ \E k \in DOMAIN created :
          /\ created[k].label = ChickenPie
          /\ k < Len(created)
          /\ InResults(created[k])
          /\ \E j \in DOMAIN created : j < k /\ created[j].label = Lasagna

\* C9: a search leaves RECIPES as it was, and a search repeated with the
\* same keyword and max_results after any searches and fetches, with no
\* create in between, returns the same results in the same order.
SearchRepeats ==
    (SearchDone /\ seen.req = req) => seen.ret = ret
SearchReadsOnly == req'.op = "search" => RECIPES' = RECIPES
SearchIdempotent == []SearchRepeats /\ [][SearchReadsOnly]_vars
SearchIdempotentWitness ==
    /\ SearchDone
    /\ seen.req = req
    /\ seen.age = 2
    /\ Len(RECIPES) > Len(SeedRecipes)
    /\ Len(ret.results) > 0

\* C10: with create_recipe calls interleaving, each record is stored under
\* the id its call computed when it read len(RECIPES), every returned call
\* has added exactly one record at the end of RECIPES, and a fetch of an
\* id returns the first-appended record holding it.
ConcState ==
    /\ Len(RECIPES) = Len(SeedRecipes) + Len(created)
    /\ \A k \in DOMAIN created : RECIPES[Len(SeedRecipes) + k] = created[k]
    /\ (req.op = "fetch" /\ status = 200) => IsFirstWithId(ret, req.recipe_id)
ConcStep ==
    \A w \in Workers :
        (local[w] # Idle /\ local'[w] = Idle) =>
            /\ RECIPES' = Append(RECIPES, ret')
            /\ ret'.id = local[w].new_entry_id
            /\ created' = Append(created, ret')
ConcurrentCreateDuplicates == []ConcState /\ [][ConcStep]_vars
ConcurrentCreateDuplicatesWitness ==
    /\ req.op = "fetch"
    /\ status = 200
    /\ Len(RECIPES) = Len(SeedRecipes) + 2
    /\ \E i, j \in DOMAIN RECIPES :
          /\ i < j
          /\ RECIPES[i].id = req.recipe_id
          /\ RECIPES[j].id = req.recipe_id
          /\ RECIPES[i] # RECIPES[j]
          /\ ret = RECIPES[i]

====
